---------------------------- MODULE Spec2Model ----------------------------
(***************************************************************************)
(* BluVoiceAssistant: the session loop of main.py, the dispatch of        *)
(* voice_recoginition.execute_bluos_command and the device client of      *)
(* bluos_api.send_command, as one sequential state machine.               *)
(*                                                                         *)
(* Strings the code inspects character by character (entity texts,        *)
(* utterances) are tuples of one-character strings.  A response body is a *)
(* tuple of lexical tokens.  A Python optional is <<>> (None) or <<v>>.    *)
(***************************************************************************)
EXTENDS Integers, Sequences, FiniteSets, TLC

VARIABLES pc, voice_command, intent, entities, volume_level, volume_modifier,
          exec, requests, attempts, total, last, transientOnly,
          result, raised, spoken, printed

\* pc             where main is: a call in progress, a handler, or an end
\* voice_command  what get_voice_command returned
\* intent, entities, volume_level, volume_modifier
\*                the locals of execute_bluos_command
\* exec           the call of execute_bluos_command in this iteration: "idle",
\*                "running", "returned", "raised", "exited", "interrupted"
\*                (pc "crashed": an exception main does not handle left it;
\*                "uncaught_interrupt": Ctrl-C arrived inside a handler)
\* requests       the send_command calls made in this iteration
\* attempts       HTTP attempts made for the current send_command call
\* total          retries the session has left for it
\* last           the device's answer to the latest attempt
\* transientOnly  every attempt so far was answered with 500, 502 or 504
\* result         what send_command returned
\* raised         the exception raised in this iteration, if any
\* spoken, printed  the texts given to speak and to print in this iteration
vars == <<pc, voice_command, intent, entities, volume_level, volume_modifier,
          exec, requests, attempts, total, last, transientOnly,
          result, raised, spoken, printed>>

(* ------------------------------ bounds -------------------------------- *)

\* longest entity list the classifier returns in the model
MaxEntities == 2

(* --------------------------- Python values ---------------------------- *)

None == <<>>
Some(v) == <<v>>

\* the intent of a failed classification (Python None)
NoIntent == "<None>"

NoExc == [type |-> "none", message |-> ""]
Exc(t, m) == [type |-> t, message |-> m]

\* class BluOSAPIError(Exception): carries the message it was built with
BluOSAPIError(message) == Exc("BluOSAPIError", message)

(* ------------------------- character strings -------------------------- *)

UpperChars == <<"A","B","C","D","E","F","G","H","I","J","K","L","M",
                "N","O","P","Q","R","S","T","U","V","W","X","Y","Z">>
LowerChars == <<"a","b","c","d","e","f","g","h","i","j","k","l","m",
                "n","o","p","q","r","s","t","u","v","w","x","y","z">>

LowerChar(c) ==
    IF \E i \in 1..26 : UpperChars[i] = c
    THEN LowerChars[CHOOSE i \in 1..26 : UpperChars[i] = c]
    ELSE c

\* str.lower()
lower(s) == [i \in 1..Len(s) |-> LowerChar(s[i])]

\* the test `sub in s` on strings
Contains(s, sub) ==
    \E i \in 0..(Len(s) - Len(sub)) : SubSeq(s, i + 1, i + Len(sub)) = sub

IsSpace(c) == c \in {" ", "\t", "\n", "\r"}

RECURSIVE lstrip(_)
lstrip(s) == IF s # <<>> /\ IsSpace(Head(s)) THEN lstrip(Tail(s)) ELSE s

RECURSIVE rstrip(_)
rstrip(s) ==
    IF s # <<>> /\ IsSpace(s[Len(s)]) THEN rstrip(SubSeq(s, 1, Len(s) - 1)) ELSE s

\* strip() of a str or bytes value
strip(s) == rstrip(lstrip(s))

DigitChars == <<"0","1","2","3","4","5","6","7","8","9">>
IsDigit(c) == \E i \in 1..10 : DigitChars[i] = c
DigitVal(c) == (CHOOSE i \in 1..10 : DigitChars[i] = c) - 1

\* the digits of an int() literal once blanks and the sign are removed
IntBody(text) ==
    LET t == strip(text)
    IN  IF t # <<>> /\ t[1] \in {"+", "-"} THEN Tail(t) ELSE t

IntSign(text) ==
    LET t == strip(text)
    IN  IF t # <<>> /\ t[1] = "-" THEN -1 ELSE 1

\* int(text) accepts: blanks, an optional sign, digits with single
\* underscores between them
IntValid(text) ==
    LET u == IntBody(text)
    IN  /\ u # <<>>
        /\ IsDigit(u[1])
        /\ IsDigit(u[Len(u)])
        /\ \A i \in 1..Len(u) : IsDigit(u[i]) \/ u[i] = "_"
        /\ \A i \in 1..(Len(u) - 1) : ~(u[i] = "_" /\ u[i + 1] = "_")

RECURSIVE DigitsValue(_, _)
DigitsValue(u, acc) ==
    IF u = <<>> THEN acc
    ELSE IF Head(u) = "_" THEN DigitsValue(Tail(u), acc)
    ELSE DigitsValue(Tail(u), 10 * acc + DigitVal(Head(u)))

\* the value of int(text) when it does not raise ValueError
IntValue(text) == IntSign(text) * DigitsValue(IntBody(text), 0)

(* ------------------------- classifier results ------------------------- *)

\* the keys of command_mapping
CommandKeys == {"PlayMusic", "PausePlayback", "SetVolume", "AdjustVolume",
                "Mute", "Unmute", "SkipTrack", "TurnOff"}

\* labels the classifier can answer with: the keys and labels outside the
\* table (the absent intent comes from a failed classification only)
IntentLabels == CommandKeys \cup {"None", "PreviousTrack", "ShuffleOn", "ShuffleOff",
                                  "RepeatOn", "RepeatOff"}

LevelTexts == { <<"3","0">>, <<"0">>, <<"t","e","n">> }
ModifierTexts == { <<"t","o">>, <<"T","o">>, <<"b","y">> }

Entity(c, t) == [category |-> c, text |-> t]

EntityUniverse ==
    {Entity("Volume Level", t) : t \in LevelTexts}
        \cup {Entity("VolumeModifier", t) : t \in ModifierTexts}
        \cup {Entity("Song", <<"t","o">>)}

EntityLists == UNION {[1..n -> EntityUniverse] : n \in 0..MaxEntities}


(* ------------------------ bluos_api: requests ------------------------- *)

\* one call of send_command(device_ip, command, params, timeout)
Request(command, params, timeout) ==
    [command |-> command, params |-> params, timeout |-> timeout]

\* the pairs of a params dict that requests puts in the query string:
\* a key whose value is None is left out
Query(params) ==
    IF params = None THEN {}
    ELSE {<<kv[1], kv[2][1]>> : kv \in {x \in params[1] : x[2] # None}}

play(seek) ==
    Request("Play", IF seek # 0 THEN Some({<<"seek", Some(seek)>>}) ELSE None, None)

pause == Request("Pause", None, None)

\* set_volume with `if level:` in place of `if level is not None:`
set_volume_truthy(level, abs_db, mute_arg, tell_slaves) ==
    Request("Volume",
            Some({<<"tell_slaves", Some(tell_slaves)>>}
                 \cup (IF level # None /\ level # Some(0) THEN {<<"level", level>>} ELSE {})
                 \cup (IF abs_db # None THEN {<<"abs_db", abs_db>>} ELSE {})
                 \cup (IF mute_arg # None THEN {<<"mute", mute_arg>>} ELSE {})),
            None)

set_volume(level, abs_db, mute_arg, tell_slaves) ==
    Request("Volume",
            Some({<<"tell_slaves", Some(tell_slaves)>>}
                 \cup (IF level # None THEN {<<"level", level>>} ELSE {})
                 \cup (IF abs_db # None THEN {<<"abs_db", abs_db>>} ELSE {})
                 \cup (IF mute_arg # None THEN {<<"mute", mute_arg>>} ELSE {})),
            None)

mute(mute_state, tell_slaves) ==
    Request("Volume",
            Some({<<"mute", Some(mute_state)>>, <<"tell_slaves", Some(tell_slaves)>>}),
            None)

\* adjust_volume sending the change under the key of the absolute level
adjust_volume_as_level(db_change, tell_slaves) ==
    Request("Volume",
            Some({<<"level", db_change>>, <<"tell_slaves", Some(tell_slaves)>>}),
            None)

adjust_volume(db_change, tell_slaves) ==
    Request("Volume",
            Some({<<"db", db_change>>, <<"tell_slaves", Some(tell_slaves)>>}),
            None)

skip == Request("Skip", None, None)

(* ------------------------ bluos_api: session -------------------------- *)

\* create_session(retries = 3, ...)
DefaultRetries == 3

\* create_session(..., status_forcelist = (500, 502, 504))
DefaultStatusForcelist == {500, 502, 504}

\* statuses urllib3 retries when the response carries a Retry-After header
RetryAfterStatusCodes == {413, 429, 503}

\* the Retry object create_session builds and binds to the local `retry`
RetryLocal(retries, status_forcelist) ==
    [total |-> retries, status_forcelist |-> status_forcelist]

\* HTTPAdapter(max_retries = n) with an integer n: Retry.from_int(n), whose
\* status_forcelist is empty
RetryFromInt(n) == [total |-> n, status_forcelist |-> {}]

\* create_session handing the adapter a Retry whose forcelist also holds 404
create_session_forcing_404(retries, status_forcelist) ==
    [max_retries |-> RetryLocal(retries, status_forcelist \cup {404})]

\* create_session: the adapter is built from the integer `retries`; the
\* local `retry` is not passed to it
create_session(retries, status_forcelist) ==
    [max_retries |-> RetryFromInt(retries)]

\* the module-level session
session == create_session(DefaultRetries, DefaultStatusForcelist)

(* ------------------------- the device's answers ----------------------- *)

ConnFailures == {"ConnectionError", "ConnectTimeout", "ReadTimeout"}

Answer(kind, status, retry_after, body) ==
    [kind |-> kind, status |-> status, retry_after |-> retry_after, body |-> body]

NoAnswer == Answer("none", 0, FALSE, <<>>)

\* response bodies, as token sequences
Bodies == { <<>>, <<"\n", " ">>,
            <<"<a>", "x", "</a>">>, <<" ", "<a/>", "\n">>,
            <<"<a>">>,
            <<"<?xml bogus?>", "<a/>">> }

Answers ==
    {Answer(k, 0, FALSE, <<>>) : k \in ConnFailures}
        \cup {Answer("response", 200, FALSE, b) : b \in Bodies}
        \cup {Answer("response", st, ra, <<>>) :
                 st \in {404, 429, 503}, ra \in BOOLEAN}
        \cup {Answer("response", st, FALSE, <<>>) : st \in {500, 502, 504}}

\* Retry.is_retry for a GET
is_retry(retry, status, has_retry_after) ==
    \/ status \in retry.status_forcelist
    \/ /\ retry.total > 0
       /\ has_retry_after
       /\ status \in RetryAfterStatusCodes

\* does the adapter count the answer against the retry budget
Retryable(retry, ans) ==
    \/ ans.kind \in ConnFailures
    \/ ans.kind = "response" /\ is_retry(retry, ans.status, ans.retry_after)

\* the requests exception HTTPAdapter.send raises once the budget is spent
ExhaustedError(ans) ==
    CASE ans.kind = "ConnectTimeout" -> "ConnectTimeout"
      [] ans.kind = "response"       -> "RetryError"
      [] OTHER                       -> "ConnectionError"

\* requests.exceptions.Timeout and its subclasses
IsTimeout(e) == e \in {"Timeout", "ConnectTimeout", "ReadTimeout"}

\* response.raise_for_status()
raise_for_status(status) == status >= 400 /\ status < 600

RECURSIVE WellFormed(_, _, _)
WellFormed(s, depth, roots) ==
    IF s = <<>> THEN depth = 0 /\ roots = 1
    ELSE LET t == Head(s)
         IN  CASE t = "<a>"  -> /\ (depth > 0 \/ roots = 0)
                                /\ WellFormed(Tail(s), depth + 1,
                                              IF depth = 0 THEN roots + 1 ELSE roots)
               [] t = "</a>" -> /\ depth > 0
                                /\ WellFormed(Tail(s), depth - 1, roots)
               [] t = "<a/>" -> /\ (depth > 0 \/ roots = 0)
                                /\ WellFormed(Tail(s), depth,
                                              IF depth = 0 THEN roots + 1 ELSE roots)
               [] t = "x"    -> /\ depth > 0
                                /\ WellFormed(Tail(s), depth, roots)
               [] IsSpace(t) -> WellFormed(Tail(s), depth, roots)
               [] OTHER      -> FALSE

\* ET.fromstring(content): an element, ParseError, or LookupError when the
\* declaration names an encoding Python does not know
fromstring(content) ==
    IF content # <<>> /\ Head(content) = "<?xml bogus?>" THEN "LookupError"
    ELSE IF content # <<>> /\ Head(content) = "<?xml?>"
         THEN (IF WellFormed(Tail(content), 0, 0) THEN "Element" ELSE "ParseError")
    ELSE IF WellFormed(content, 0, 0) THEN "Element" ELSE "ParseError"

Outcome(res, exc) == [result |-> res, raised |-> exc]

\* send_command testing `not response.content` without the strip()
HandleResponse_no_strip(ans) ==
    IF raise_for_status(ans.status)
    THEN Outcome("NoResult", BluOSAPIError("Request error: HTTPError"))
    ELSE IF ans.body = <<>> THEN Outcome("None", NoExc)
    ELSE LET parsed == fromstring(ans.body)
         IN  CASE parsed = "Element"    -> Outcome("Element", NoExc)
               [] parsed = "ParseError" ->
                      Outcome("NoResult", BluOSAPIError("XML parse error"))
               [] OTHER                 -> Outcome("NoResult", Exc(parsed, "unknown encoding"))

\* send_command after session.get returned a response
HandleResponse(ans) ==
    IF raise_for_status(ans.status)
    THEN Outcome("NoResult", BluOSAPIError("Request error: HTTPError"))
    ELSE IF strip(ans.body) = <<>> THEN Outcome("None", NoExc)
    ELSE LET parsed == fromstring(ans.body)
         IN  CASE parsed = "Element"    -> Outcome("Element", NoExc)
               [] parsed = "ParseError" ->
                      Outcome("NoResult", BluOSAPIError("XML parse error"))
               [] OTHER                 -> Outcome("NoResult", Exc(parsed, "unknown encoding"))

\* send_command's handlers for an exception of session.get
HandleRequestException(e) ==
    IF IsTimeout(e) THEN Outcome("NoResult", BluOSAPIError("Request timed out"))
    ELSE Outcome("NoResult", BluOSAPIError("Request error: " \o e))

\* what session.get does with the answer to one attempt: try again, raise,
\* or hand the response to send_command
Transport(retry, ans) ==
    IF Retryable(retry, ans)
    THEN (IF retry.total = 0 THEN "raise" ELSE "retry")
    ELSE "response"

\* the outcome of send_command when the answer ends the call
send_command(retry, ans) ==
    IF Transport(retry, ans) = "raise"
    THEN HandleRequestException(ExhaustedError(ans))
    ELSE HandleResponse(ans)

(* ------------------- voice_recoginition: resolution ------------------- *)

\* next((... for entity in entities if entity["category"] == cat), None):
\* the first entity of the category, if any
FirstOf(ents, cat) ==
    LET idx == {i \in DOMAIN ents : ents[i].category = cat}
    IN  IF idx = {} THEN None
        ELSE Some(ents[CHOOSE i \in idx : \A j \in idx : i <= j])

\* does the computation of volume_level raise ValueError
VolumeLevelRaises(ents) ==
    LET e == FirstOf(ents, "Volume Level")
    IN  e # None /\ ~IntValid(e[1].text)

VolumeLevel(ents) ==
    LET e == FirstOf(ents, "Volume Level")
    IN  IF e = None THEN None ELSE Some(IntValue(e[1].text))

VolumeModifier(ents) ==
    LET e == FirstOf(ents, "VolumeModifier")
    IN  IF e = None THEN None ELSE Some(lower(e[1].text))

NoRequest == Request("", None, None)
Act(kind, request) == [kind |-> kind, request |-> request]

\* what calling command_mapping[key]() does: a device call, nothing
\* (the lambda evaluates to None), or the farewell and exit(0)
command_mapping(key, level, modifier) ==
    CASE key = "PlayMusic"     -> Act("request", play(0))
      [] key = "PausePlayback" -> Act("request", pause)
      [] key = "SetVolume"     ->
             IF modifier = Some(<<"t","o">>)
             THEN Act("request", set_volume(level, None, None, 0))
             ELSE Act("nothing", NoRequest)
      [] key = "AdjustVolume"  ->
             IF modifier = Some(<<"b","y">>)
             THEN Act("request", adjust_volume(level, 0))
             ELSE Act("nothing", NoRequest)
      [] key = "Mute"          -> Act("request", mute(1, 0))
      [] key = "Unmute"        -> Act("request", mute(0, 0))
      [] key = "SkipTrack"     -> Act("request", skip)
      [] key = "TurnOff"       -> Act("exit", NoRequest)

\* execute_bluos_command catching the device error itself
execute_raise_swallowing(exc) == IF exc.type = "BluOSAPIError" THEN NoExc ELSE exc

\* execute_bluos_command has no handler: what action() raises leaves it as is
execute_raise(exc) == exc

(* ------------------------------ main ---------------------------------- *)

\* where an exception leaving the try block of main takes the loop
MainNext(exc) ==
    CASE exc = NoExc                     -> "wait_for_wake_word"
      [] exc.type = "BluOSAPIError"      -> "handle_error"
      [] exc.type = "KeyboardInterrupt"  -> "stopping"
      [] exc.type = "SystemExit"         -> "exited"
      [] OTHER                           -> "crashed"

WakeWord == <<"h","e","l","l","o">>
HeardTexts == { <<"H","e","l","l","o">>, <<"h","i">> }
WakeFailures == {"WaitTimeoutError", "UnknownValueError", "RequestError"}

RecognizedTexts == { <<>>, <<"P","l","a","y">>,
                     <<"T","u","r","n"," ","o","f","f">> }
StopKeywords == { <<"t","u","r","n"," ","o","f","f">>,
                  <<"s","h","u","t"," ","u","p">> }
CaptureFailures == {"WaitTimeoutError", "NoMatch", "Canceled", "Exception"}

Init ==
    /\ pc = "wait_for_wake_word"
    /\ voice_command = <<>>
    /\ intent = NoIntent
    /\ entities = <<>>
    /\ volume_level = None
    /\ volume_modifier = None
    /\ exec = "idle"
    /\ requests = <<>>
    /\ attempts = 0
    /\ total = 0
    /\ last = NoAnswer
    /\ transientOnly = TRUE
    /\ result = "NoResult"
    /\ raised = NoExc
    /\ spoken = <<>>
    /\ printed = <<>>

\* a new iteration of `while True`: the locals of the previous one are gone
NewLocals ==
    /\ voice_command' = <<>>
    /\ intent' = NoIntent
    /\ entities' = <<>>
    /\ volume_level' = None
    /\ volume_modifier' = None
    /\ exec' = "idle"
    /\ requests' = <<>>
    /\ attempts' = 0
    /\ total' = 0
    /\ last' = NoAnswer
    /\ transientOnly' = TRUE
    /\ result' = "NoResult"
    /\ printed' = <<>>

\* a new iteration of `while True`: nothing of the previous one is kept
NewIteration ==
    /\ NewLocals
    /\ raised' = NoExc

\* wait_for_wake_word returning True whatever it heard
WakeHeard_always(heard) ==
    /\ pc = "wait_for_wake_word"
    /\ NewIteration
    /\ spoken' = IF Contains(lower(heard), lower(WakeWord))
                 THEN <<"Wake word detected!">>
                 ELSE <<>>
    /\ pc' = "get_voice_command"

\* wait_for_wake_word hears a text
WakeHeard(heard) ==
    /\ pc = "wait_for_wake_word"
    /\ NewIteration
    /\ IF Contains(lower(heard), lower(WakeWord))
       THEN /\ spoken' = <<"Wake word detected!">>
            /\ pc' = "get_voice_command"
       ELSE /\ spoken' = <<>>
            /\ pc' = "wait_for_wake_word"

\* wait_for_wake_word: listening or recognition fails; returns False
WakeFailed(failure) ==
    /\ pc = "wait_for_wake_word"
    /\ NewIteration
    /\ spoken' = <<failure>>
    /\ pc' = "wait_for_wake_word"

\* wait_for_wake_word: sr.Microphone or the ambient-noise adjustment raises
\* something other than the three exceptions it handles
WakeRaised ==
    /\ pc = "wait_for_wake_word"
    /\ NewLocals
    /\ raised' = Exc("OSError", "wait_for_wake_word")
    /\ spoken' = <<>>
    /\ pc' = MainNext(raised')

\* get_voice_command: sr.Microphone, listen or the temporary file raises
\* something other than WaitTimeoutError, outside the try block
CaptureRaised ==
    /\ pc = "get_voice_command"
    /\ raised' = Exc("OSError", "get_voice_command")
    /\ pc' = MainNext(raised')
    /\ UNCHANGED <<voice_command, intent, entities, volume_level, volume_modifier,
                   exec, requests, attempts, total, last, transientOnly, result,
                   spoken, printed>>

\* get_voice_command recognizes a text, then main tests it
CaptureRecognized(text) ==
    /\ pc = "get_voice_command"
    /\ IF \E k \in StopKeywords : Contains(lower(text), k)
       THEN /\ spoken' = spoken \o <<"You said", "Turning off. Goodbye!">>
            /\ raised' = Exc("SystemExit", "0")
            /\ pc' = MainNext(raised')
            /\ UNCHANGED voice_command
       ELSE /\ voice_command' = lower(text)
            /\ raised' = NoExc
            /\ IF voice_command' # <<>>
               THEN /\ spoken' = spoken \o <<"You said", "Executing command">>
                    /\ pc' = "get_intent_from_clu"
               ELSE /\ spoken' = Append(spoken, "You said")
                    /\ pc' = "wait_for_wake_word"
    /\ exec' = IF pc' = "get_intent_from_clu" THEN "running" ELSE exec
    /\ UNCHANGED <<intent, entities, volume_level, volume_modifier, requests,
                   attempts, total, last, transientOnly, result, printed>>

\* get_voice_command returns '' and main starts over
CaptureFailed(failure) ==
    /\ pc = "get_voice_command"
    /\ voice_command' = <<>>
    /\ spoken' = IF failure = "NoMatch"
                 THEN Append(spoken, "Sorry, I did not understand that.")
                 ELSE spoken
    /\ printed' = IF failure = "NoMatch" THEN printed ELSE Append(printed, failure)
    /\ pc' = "wait_for_wake_word"
    /\ UNCHANGED <<intent, entities, volume_level, volume_modifier, exec,
                   requests, attempts, total, last, transientOnly, result, raised>>

\* get_intent_from_clu answers with an intent and entities
Classify(label, ents) ==
    /\ pc = "get_intent_from_clu"
    /\ intent' = label
    /\ entities' = ents
    /\ pc' = "resolve"
    /\ UNCHANGED <<voice_command, volume_level, volume_modifier, exec, requests,
                   attempts, total, last, transientOnly, result, raised,
                   spoken, printed>>

\* get_intent_from_clu: the provider fails; {"intent": None, "entities": []}
ClassifyFailed ==
    /\ pc = "get_intent_from_clu"
    /\ intent' = NoIntent
    /\ entities' = <<>>
    /\ printed' = Append(printed, "Could not request CLU results")
    /\ pc' = "resolve"
    /\ UNCHANGED <<voice_command, volume_level, volume_modifier, exec, requests,
                   attempts, total, last, transientOnly, result, raised, spoken>>

\* execute_bluos_command computes volume_level and volume_modifier
Resolve ==
    /\ pc = "resolve"
    /\ IF VolumeLevelRaises(entities)
       THEN /\ raised' = execute_raise(Exc("ValueError", "invalid literal for int()"))
            /\ exec' = "raised"
            /\ pc' = MainNext(raised')
            /\ UNCHANGED <<volume_level, volume_modifier>>
       ELSE /\ volume_level' = VolumeLevel(entities)
            /\ volume_modifier' = VolumeModifier(entities)
            /\ pc' = "dispatch"
            /\ UNCHANGED <<raised, exec>>
    /\ UNCHANGED <<voice_command, intent, entities, requests, attempts, total,
                   last, transientOnly, result, spoken, printed>>

\* action = command_mapping.get(intent); action() or "not recognized"
Dispatch ==
    /\ pc = "dispatch"
    /\ IF intent \notin CommandKeys
       THEN /\ printed' = Append(printed, "Command not recognized. Please try again.")
            /\ exec' = "returned"
            /\ pc' = "wait_for_wake_word"
            /\ UNCHANGED <<requests, total, raised, spoken>>
       ELSE LET action == command_mapping(intent, volume_level, volume_modifier)
            IN  CASE action.kind = "request" ->
                       /\ requests' = Append(requests, action.request)
                       /\ total' = session.max_retries.total
                       /\ pc' = "session_get"
                       /\ UNCHANGED <<exec, raised, spoken, printed>>
                  [] action.kind = "nothing" ->
                       /\ exec' = "returned"
                       /\ pc' = "wait_for_wake_word"
                       /\ UNCHANGED <<requests, total, raised, spoken, printed>>
                  [] action.kind = "exit" ->
                       /\ spoken' = Append(spoken, "Turning off. Goodbye!")
                       /\ raised' = execute_raise(Exc("SystemExit", "0"))
                       /\ exec' = "exited"
                       /\ pc' = MainNext(raised')
                       /\ UNCHANGED <<requests, total, printed>>
    /\ UNCHANGED <<voice_command, intent, entities, volume_level, volume_modifier,
                   attempts, last, transientOnly, result>>

\* send_command is over: its outcome travels through execute_bluos_command
\* to main
Finish(outcome) ==
    /\ result' = outcome.result
    /\ raised' = execute_raise(outcome.raised)
    /\ exec' = IF raised' = NoExc THEN "returned" ELSE "raised"
    /\ pc' = MainNext(raised')
    /\ UNCHANGED total

\* one HTTP attempt of session.get and the device's answer to it
SessionGet(ans) ==
    /\ pc = "session_get"
    /\ attempts' = attempts + 1
    /\ last' = ans
    /\ transientOnly' = (transientOnly /\ ans.kind = "response"
                            /\ ans.status \in DefaultStatusForcelist)
    /\ LET retry == [session.max_retries EXCEPT !.total = total]
       IN  IF Transport(retry, ans) = "retry"
           THEN /\ total' = total - 1
                /\ UNCHANGED <<pc, exec, result, raised>>
           ELSE Finish(send_command(retry, ans))
    /\ UNCHANGED <<voice_command, intent, entities, volume_level, volume_modifier,
                   requests, spoken, printed>>

\* except BluOSAPIError as e: speak(f"An error occurred: {e}")
HandleError ==
    /\ pc = "handle_error"
    /\ spoken' = Append(spoken, "An error occurred: " \o raised.message)
    /\ pc' = "wait_for_wake_word"
    /\ UNCHANGED <<voice_command, intent, entities, volume_level, volume_modifier,
                   exec, requests, attempts, total, last, transientOnly, result,
                   raised, printed>>

\* Ctrl-C: inside the try block it reaches `except KeyboardInterrupt`; inside
\* a handler it leaves main uncaught.  `raised` keeps what the program raised.
Interrupt ==
    /\ pc \in {"wait_for_wake_word", "get_voice_command", "get_intent_from_clu",
               "resolve", "dispatch", "session_get", "handle_error", "stopping"}
    /\ pc' = IF pc \in {"handle_error", "stopping"}
             THEN "uncaught_interrupt"
             ELSE MainNext(Exc("KeyboardInterrupt", ""))
    /\ exec' = IF exec = "running" THEN "interrupted" ELSE exec
    /\ UNCHANGED <<voice_command, intent, entities, volume_level, volume_modifier,
                   requests, attempts, total, last, transientOnly, result, raised,
                   spoken, printed>>

\* except KeyboardInterrupt: speak("Stopping voice assistant..."); break
Stop ==
    /\ pc = "stopping"
    /\ spoken' = Append(spoken, "Stopping voice assistant...")
    /\ pc' = "returned"
    /\ UNCHANGED <<voice_command, intent, entities, volume_level, volume_modifier,
                   exec, requests, attempts, total, last, transientOnly, result,
                   raised, printed>>

Next ==
    \/ \E heard \in HeardTexts : WakeHeard(heard)
    \/ \E failure \in WakeFailures : WakeFailed(failure)
    \/ WakeRaised
    \/ CaptureRaised
    \/ \E text \in RecognizedTexts : CaptureRecognized(text)
    \/ \E failure \in CaptureFailures : CaptureFailed(failure)
    \/ \E label \in IntentLabels, ents \in EntityLists : Classify(label, ents)
    \/ ClassifyFailed
    \/ Resolve
    \/ Dispatch
    \/ \E ans \in Answers : SessionGet(ans)
    \/ HandleError
    \/ Interrupt
    \/ Stop

Spec == Init /\ [][Next]_vars

(* ------------------- keyword strategy (specification 4.2) ------------- *)

\* bound on the number of fragments of a heard phrase
MaxFragments == 3

\* the ordered table of substring keys, in declaration order, with the action
\* bound to each
KeywordTable ==
    << <<<<"p","l","a","y">>, "Play">>,
       <<<<"p","a","u","s","e">>, "Pause">>,
       <<<<"s","t","o","p">>, "Pause">>,
       <<<<"v","o","l","u","m","e"," ","u","p">>, "VolumeUp">>,
       <<<<"v","o","l","u","m","e"," ","d","o","w","n">>, "VolumeDown">>,
       <<<<"s","k","i","p">>, "Skip">>,
       <<<<"n","e","x","t">>, "Skip">>,
       <<<<"b","a","c","k">>, "Back">>,
       <<<<"p","r","e","v","i","o","u","s">>, "Back">>,
       <<<<"s","h","u","f","f","l","e"," ","o","n">>, "ShuffleOn">>,
       <<<<"s","h","u","f","f","l","e"," ","o","f","f">>, "ShuffleOff">>,
       <<<<"r","e","p","e","a","t"," ","o","n">>, "RepeatOn">>,
       <<<<"r","e","p","e","a","t"," ","o","f","f">>, "RepeatOff">> >>

\* the scan of the table from entry i on: the action of the first key found in
\* the phrase, Unknown when the table is exhausted
RECURSIVE scan(_, _)
scan(rawPhrase, i) ==
    IF i > Len(KeywordTable) THEN "Unknown"
    ELSE IF Contains(rawPhrase, KeywordTable[i][1]) THEN KeywordTable[i][2]
    ELSE scan(rawPhrase, i + 1)

\* the scan run backwards: the last key found wins
RECURSIVE scan_last(_, _)
scan_last(rawPhrase, i) ==
    IF i < 1 THEN "Unknown"
    ELSE IF Contains(rawPhrase, KeywordTable[i][1]) THEN KeywordTable[i][2]
    ELSE scan_last(rawPhrase, i - 1)

resolve_last_match(rawPhrase) == scan_last(rawPhrase, Len(KeywordTable))

\* resolve(rawPhrase) -> ResolvedIntent
resolve(rawPhrase) == scan(rawPhrase, 1)

\* what a phrase is made of
Fragments ==
    { <<"p","l","e","a","s","e"," ">>,
      <<"s","t","o","p"," ">>,
      <<"s","k","i","p"," ">>,
      <<"p","l","a","y"," ">>,
      <<"p","a","u","s","e"," ">>,
      <<"v","o","l","u","m","e"," ","u","p"," ">>,
      <<"p","r","e","v","i","o","u","s"," ">>,
      <<"r","e","p","e","a","t"," ","o","f","f"," ">> }

RECURSIVE Join(_)
Join(fs) == IF fs = <<>> THEN <<>> ELSE Head(fs) \o Join(Tail(fs))

Phrases == { Join(fs) : fs \in UNION {[1..n -> Fragments] : n \in 0..MaxFragments} }

InitKeyword ==
    /\ pc = "keyword_listen"
    /\ voice_command = <<>>
    /\ intent = NoIntent
    /\ entities = <<>>
    /\ volume_level = None
    /\ volume_modifier = None
    /\ exec = "idle"
    /\ requests = <<>>
    /\ attempts = 0
    /\ total = 0
    /\ last = NoAnswer
    /\ transientOnly = TRUE
    /\ result = "NoResult"
    /\ raised = NoExc
    /\ spoken = <<>>
    /\ printed = <<>>

\* a free-text phrase arrives
KeywordHear(rawPhrase) ==
    /\ pc = "keyword_listen"
    /\ voice_command' = rawPhrase
    /\ intent' = NoIntent
    /\ pc' = "keyword_resolve"
    /\ UNCHANGED <<entities, volume_level, volume_modifier, exec, requests, attempts,
                   total, last, transientOnly, result, raised, spoken, printed>>

\* the phrase is resolved against the table
KeywordResolve ==
    /\ pc = "keyword_resolve"
    /\ intent' = resolve(voice_command)
    /\ pc' = "keyword_resolved"
    /\ UNCHANGED <<voice_command, entities, volume_level, volume_modifier, exec,
                   requests, attempts, total, last, transientOnly, result, raised,
                   spoken, printed>>

\* the resolver is ready for the next phrase
KeywordNext ==
    /\ pc = "keyword_resolved"
    /\ pc' = "keyword_listen"
    /\ UNCHANGED <<voice_command, intent, entities, volume_level, volume_modifier,
                   exec, requests, attempts, total, last, transientOnly, result,
                   raised, spoken, printed>>

NextKeyword ==
    \/ \E rawPhrase \in Phrases : KeywordHear(rawPhrase)
    \/ KeywordResolve
    \/ KeywordNext

SpecKeyword == InitKeyword /\ [][NextKeyword]_vars

(* ------------------------------ claims -------------------------------- *)

\* the call of execute_bluos_command of this iteration is over
ExecEnded == exec \in {"returned", "raised", "exited"}

\* command_mapping's action has been invoked and reached the device client
ActionInvoked == pc = "session_get" \/ (exec \in {"returned", "raised"} /\ attempts >= 1)

\* the current send_command call is over
CallEnded == exec \in {"returned", "raised"} /\ attempts >= 1

LevelEntity == FirstOf(entities, "Volume Level")
ModifierEntity == FirstOf(entities, "VolumeModifier")

\* the classification result has a Volume Level entity whose text is a
\* decimal integer (with several entities of a category, the first counts)
HasLevel == LevelEntity # None /\ IntValid(LevelEntity[1].text)

IsBlank(body) == \A i \in 1..Len(body) : body[i] \in {" ", "\t", "\n", "\r"}

TransportMessages == {"Request error: HTTPError", "Request error: ConnectionError",
                      "Request error: RetryError"}

\* C1: for every intent label outside the action table (the absent intent
\* included) and every entity list, execute_bluos_command returns normally
\* and has issued no device request.
C1_UnknownIntentReturnsWithoutRequest ==
    (ExecEnded /\ intent \notin CommandKeys)
        => (exec = "returned" /\ requests = <<>>)

\* C2: SetVolume with a Volume Level entity N and the VolumeModifier "to"
\* issues exactly one device request: Volume carrying level=N.
C2_SetVolumeTo ==
    (/\ ActionInvoked
     /\ intent = "SetVolume"
     /\ HasLevel
     /\ ModifierEntity # None
     /\ ModifierEntity[1].text = <<"t","o">>)
        => /\ Len(requests) = 1
           /\ requests[1].command = "Volume"
           /\ <<"level", IntValue(LevelEntity[1].text)>> \in Query(requests[1].params)
           /\ (LevelEntity[1].text = <<"3","0">>
                  => <<"level", 30>> \in Query(requests[1].params))
           /\ (LevelEntity[1].text = <<"0">>
                  => <<"level", 0>> \in Query(requests[1].params))

C2_Witness ==
    /\ exec = "returned"
    /\ intent = "SetVolume"
    /\ entities = <<Entity("Volume Level", <<"3","0">>), Entity("VolumeModifier", <<"t","o">>)>>
    /\ Len(requests) = 1
    /\ Query(requests[1].params) = {<<"level", 30>>, <<"tell_slaves", 0>>}

\* C3: SetVolume with a modifier other than "to" (or none), and AdjustVolume
\* with a modifier other than "by" (or none), issue no device request and
\* raise no error.
C3_ModifierMismatchNoRequestNoError ==
    (/\ ExecEnded
     /\ \/ intent = "SetVolume" /\ VolumeModifier(entities) # Some(<<"t","o">>)
        \/ intent = "AdjustVolume" /\ VolumeModifier(entities) # Some(<<"b","y">>))
        => (exec = "returned" /\ requests = <<>>)

\* C4: AdjustVolume with a Volume Level entity N and the VolumeModifier "by"
\* issues exactly one device request: Volume carrying db=N.
C4_AdjustVolumeBy ==
    (/\ ActionInvoked
     /\ intent = "AdjustVolume"
     /\ HasLevel
     /\ ModifierEntity # None
     /\ ModifierEntity[1].text = <<"b","y">>)
        => /\ Len(requests) = 1
           /\ requests[1].command = "Volume"
           /\ <<"db", IntValue(LevelEntity[1].text)>> \in Query(requests[1].params)
           /\ (LevelEntity[1].text = <<"3","0">>
                  => <<"db", 30>> \in Query(requests[1].params))
           /\ (LevelEntity[1].text = <<"0">>
                  => <<"db", 0>> \in Query(requests[1].params))

C4_Witness ==
    /\ exec = "returned"
    /\ intent = "AdjustVolume"
    /\ entities = <<Entity("VolumeModifier", <<"b","y">>), Entity("Volume Level", <<"3","0">>)>>
    /\ Len(requests) = 1
    /\ Query(requests[1].params) = {<<"db", 30>>, <<"tell_slaves", 0>>}

\* C5: when every attempt of a send_command call is answered with 500, 502
\* or 504, the session makes exactly 3 attempts and send_command then fails
\* with a BluOSAPIError of the transport kind.
C5_ThreeAttemptsOnTransientStatus ==
    (CallEnded /\ transientOnly)
        => /\ attempts = 3
           /\ raised.type = "BluOSAPIError"
           /\ raised.message \in TransportMessages

C7_OnlyBluOSAPIErrorLeavesSendCommand ==
    (CallEnded /\ exec = "raised")
        => (raised.type = "BluOSAPIError" /\ raised.message # "")

\* C8: a BluOSAPIError raised by the device call leaves execute_bluos_command
\* as it was raised and reaches the handler of main; the handler reports it
\* through speak and the loop starts its next iteration; no end of main is
\* caused by a BluOSAPIError.
C8_DeviceErrorReportedLoopContinues ==
    /\ [][(/\ pc = "session_get"
           /\ attempts' = attempts + 1
           /\ Transport([session.max_retries EXCEPT !.total = total], last') # "retry"
           /\ send_command([session.max_retries EXCEPT !.total = total], last').raised.type
                  = "BluOSAPIError")
             => (/\ pc' = "handle_error"
                 /\ raised' = send_command([session.max_retries EXCEPT !.total = total],
                                           last').raised)]_vars
    /\ [][(pc = "handle_error" /\ pc' # "uncaught_interrupt")
             => (/\ pc' = "wait_for_wake_word"
                 /\ spoken' = Append(spoken, "An error occurred: " \o raised.message))]_vars
    /\ [](pc \in {"crashed", "exited"} => raised.type # "BluOSAPIError")

C8_Witness ==
    /\ pc = "wait_for_wake_word"
    /\ exec = "raised"
    /\ raised = BluOSAPIError("Request timed out")
    /\ spoken = <<"Wake word detected!", "You said", "Executing command",
                  "An error occurred: Request timed out">>

\* C9: a success status with an empty or whitespace-only body makes
\* send_command return None and raise nothing.
C9_EmptyBodyIsNoContent ==
    (/\ CallEnded
     /\ last.kind = "response"
     /\ last.status < 400
     /\ IsBlank(last.body))
        => (result = "None" /\ raised = NoExc /\ exec = "returned")

C9_Witness ==
    /\ exec = "returned"
    /\ attempts = 1
    /\ last = Answer("response", 200, FALSE, <<"\n", " ">>)
    /\ result = "None"

\* C10: the resolution step of execute_bluos_command raises no exception,
\* whatever intent label and entity list the classifier returned: an
\* exception leaves execute_bluos_command only after a device call was made.
C10_ResolutionNeverRaises ==
    (exec = "raised") => (requests # <<>>)


Printed(line) == \E i \in DOMAIN printed : printed[i] = line
Spoken(text) == \E i \in DOMAIN spoken : spoken[i] = text

\* the intent kinds of the enumeration other than Unknown
IntentKinds == {"PlayMusic", "PausePlayback", "SetVolume", "AdjustVolume",
                "Mute", "Unmute", "SkipTrack", "PreviousTrack", "ShuffleOn",
                "ShuffleOff", "RepeatOn", "RepeatOff", "TurnOff"}

\* C11: every intent kind other than Unknown has an entry in the action
\* table of the dispatcher, and a dispatch never issues more than one device
\* call.
C11_EveryKindHasAnEntry ==
    /\ Len(requests) <= 1
    /\ (pc = "dispatch" /\ intent \in IntentKinds) => intent \in CommandKeys

\* C12: when the classified intent is TurnOff the farewell is spoken, then
\* the session ends with the exit that main does not catch; no device
\* request is issued and no further iteration begins.
C12_TurnOffIsTerminal ==
    (ExecEnded /\ intent = "TurnOff")
        => /\ exec = "exited"
           /\ pc = "exited"
           /\ raised.type = "SystemExit"
           /\ spoken # <<>> /\ spoken[Len(spoken)] = "Turning off. Goodbye!"
           /\ requests = <<>>

\* C13: the error of send_command tells its cause: a request that times out
\* (connect or read) gives the timeout message, a malformed non-empty body
\* the parse message, a connection failure or an HTTP error status a
\* transport message.
C13_ErrorKindTellsCause ==
    (CallEnded /\ exec = "raised")
        => /\ (last.kind \in {"ConnectTimeout", "ReadTimeout"})
                  => (raised = BluOSAPIError("Request timed out"))
           /\ (last.kind = "response" /\ last.status < 400
                   /\ fromstring(last.body) = "ParseError")
                  => (raised = BluOSAPIError("XML parse error"))
           /\ (last.kind = "ConnectionError"
                   \/ (last.kind = "response" /\ last.status >= 400))
                  => (raised.type = "BluOSAPIError"
                         /\ raised.message \in TransportMessages)

\* C14: a failure of a collaborator does not reach the loop: a failed
\* classification gives the absent intent and no entities, and the dispatch
\* issues no device request; a failed capture gives the empty utterance and
\* no dispatch happens; nothing a collaborator raises leaves
\* get_voice_command.
C14_CollaboratorFailureDegrades ==
    /\ (Printed("Could not request CLU results") /\ pc \notin {"resolve", "dispatch"}
           /\ exec # "interrupted")
          => (intent = NoIntent /\ entities = <<>> /\ requests = <<>>
                 /\ exec = "returned")
    /\ (Spoken("Sorry, I did not understand that.")
           \/ \E f \in CaptureFailures : Printed(f))
          => (voice_command = <<>> /\ exec = "idle" /\ requests = <<>>)
    /\ ~(pc = "crashed" /\ raised = Exc("OSError", "get_voice_command"))

\* where main is during a loop iteration: waiting for the wake word,
\* capturing, dispatching, reporting a device error
IterationPoints == {"wait_for_wake_word", "get_voice_command", "get_intent_from_clu",
                    "resolve", "dispatch", "session_get", "handle_error"}

\* C15: a KeyboardInterrupt arriving at any point of a loop iteration is
\* handled: the stop announcement is made and main returns.
C15_InterruptEndsLoopGracefully ==
    /\ [][(pc \in IterationPoints /\ pc' \in {"stopping", "uncaught_interrupt"})
             => pc' = "stopping"]_vars
    /\ [][(pc = "stopping" /\ pc' \notin {"stopping", "uncaught_interrupt"})
             => (/\ pc' = "returned"
                 /\ spoken' = Append(spoken, "Stopping voice assistant..."))]_vars

\* key i of the table occurs in the phrase being resolved
KeyOccurs(i) == Contains(voice_command, KeywordTable[i][1])

\* C16: the keyword strategy returns the action bound to the first key, in
\* table-declaration order, that occurs as a substring of the phrase (a phrase
\* with both "stop" and "skip" and no earlier key resolves to Pause); when no
\* key occurs the result is Unknown
C16_FirstKeyInTableOrderWins ==
    pc = "keyword_resolved" =>
        /\ ((\A i \in DOMAIN KeywordTable : ~KeyOccurs(i)) => intent = "Unknown")
        /\ \A i \in DOMAIN KeywordTable :
              (KeyOccurs(i) /\ \A j \in 1..(i - 1) : ~KeyOccurs(j))
                  => intent = KeywordTable[i][2]

\* "please stop skip " has been resolved to Pause
C16_Witness ==
    /\ pc = "keyword_resolved"
    /\ voice_command = <<"p","l","e","a","s","e"," ","s","t","o","p"," ","s","k","i","p"," ">>
    /\ KeyOccurs(3) /\ KeyOccurs(6)
    /\ intent = "Pause"

\* C17: PlayMusic issues Play without query parameters, PausePlayback Pause,
\* SkipTrack Skip, Mute Volume with mute=1, Unmute Volume with mute=0,
\* whatever entities the classification result holds.
C17_ParameterlessIntents ==
    (ExecEnded /\ intent \in {"PlayMusic", "PausePlayback", "SkipTrack", "Mute", "Unmute"})
        => /\ Len(requests) = 1
           /\ (intent = "PlayMusic"
                  => requests[1].command = "Play" /\ Query(requests[1].params) = {})
           /\ (intent = "PausePlayback"
                  => requests[1].command = "Pause" /\ Query(requests[1].params) = {})
           /\ (intent = "SkipTrack"
                  => requests[1].command = "Skip" /\ Query(requests[1].params) = {})
           /\ (intent = "Mute"
                  => requests[1].command = "Volume"
                         /\ <<"mute", 1>> \in Query(requests[1].params))
           /\ (intent = "Unmute"
                  => requests[1].command = "Volume"
                         /\ <<"mute", 0>> \in Query(requests[1].params))

\* C18: whenever execute_bluos_command returns without a device call (intent
\* outside the table, or SetVolume/AdjustVolume with a modifier mismatch) it
\* has printed the "not recognized" line.
C18_NoActionIsReported ==
    (exec = "returned" /\ requests = <<>>)
        => Printed("Command not recognized. Please try again.")

\* C19: a device request is issued only in an iteration whose wake word was
\* detected and whose captured utterance is not empty; detection, capture,
\* classification and the request come in that order.
C19_RequestOnlyAfterWakeAndUtterance ==
    /\ [](pc = "get_voice_command"
             => (spoken = <<"Wake word detected!">> /\ voice_command = <<>>
                    /\ exec = "idle" /\ requests = <<>>))
    /\ [](pc \in {"get_intent_from_clu", "resolve", "dispatch"}
             => (/\ spoken = <<"Wake word detected!", "You said", "Executing command">>
                 /\ voice_command # <<>>
                 /\ requests = <<>>))
    /\ [](pc \in {"get_voice_command", "get_intent_from_clu"} => intent = NoIntent)
    /\ [](requests # <<>>
             => (/\ Len(spoken) >= 3
                 /\ SubSeq(spoken, 1, 3)
                       = <<"Wake word detected!", "You said", "Executing command">>
                 /\ voice_command # <<>>
                 /\ intent \in CommandKeys))
    /\ [][requests' # requests => (requests' = <<>> \/ pc = "dispatch")]_vars

C19_Witness ==
    /\ pc = "session_get"
    /\ requests = <<play(0)>>
    /\ voice_command = <<"p","l","a","y">>
    /\ spoken = <<"Wake word detected!", "You said", "Executing command">>

\* C20: a Volume request issued for SetVolume carries a level, one issued
\* for AdjustVolume carries a db, also when the classification result has no
\* Volume Level entity.
C20_VolumeRequestCarriesValue ==
    /\ (requests # <<>> /\ intent = "SetVolume")
          => \E kv \in Query(requests[1].params) : kv[1] = "level"
    /\ (requests # <<>> /\ intent = "AdjustVolume")
          => \E kv \in Query(requests[1].params) : kv[1] = "db"

=============================================================================
